---- MODULE Spec2Model ----
(***************************************************************************)
(* A model of latex2svg.py: the conversion pipeline latex2svg() (document  *)
(* assembly, latex, dvisvgm, measurement parsing, attribute injection,     *)
(* identifier prefix, optimizer) and the command line entry point main().  *)
(*                                                                         *)
(* Abstractions.  Text is a sequence of tokens, a placeholder marker being *)
(* one token.  A captured byte stream is a record: an identity, the size   *)
(* and depth tokens the regular expressions of get_size / get_measure      *)
(* would find in it, and whether the bytes are valid UTF-8.  A float is an *)
(* exact signed rational in micro-em (num/den of 1e-6 em) with a sign bit, *)
(* so that -0.0 and rounding to six decimals are both represented.         *)
(***************************************************************************)
EXTENDS Integers, Sequences, FiniteSets, TLC

\* ------------------------------------------------------------------ bounds
MaxCalls == 2          \* conversions run one after the other in one process
NumLetters == 2        \* how many characters of string.ascii_letters are drawn from
MaxReturncode == 2     \* failing tools exit with 1..MaxReturncode
MaxTemplateLen == 2    \* tokens of a template (SpecAssemble)
MaxValueLen == 1       \* tokens of a preamble / fragment (SpecAssemble)

\* ------------------------------------------------------- program constants
PrefixLen == 3                    \* range(3)
DefaultFontsize == 12             \* default_params['fontsize']
ScalingMicro == 1003750           \* scaling = 1.00375, in micro-em per em
UncaughtExitStatus == 1           \* interpreter's status for an uncaught exception

\* --------------------------------------------------------------- templates
PreambleMark == "{{ preamble }}"
FontsizeMark == "{{ fontsize }}"
CodeMark == "{{ code }}"
Markers == {PreambleMark, FontsizeMark, CodeMark}
Tokens == Markers \cup {"text"}

\* default_template: \documentclass[{{ fontsize }}pt..] {{ preamble }} .. {{ code }} ..
default_template ==
  <<"text", FontsizeMark, "text", PreambleMark, "text", CodeMark, "text">>
default_preamble == <<"text">>

SeqsUpTo(S, n) == UNION { [1..k -> S] : k \in 0..n }

\* str.replace(old, new) on a token sequence: every occurrence, left to right
RECURSIVE Replace(_, _, _)
Replace(s, old, new) ==
  IF s = <<>> THEN <<>>
  ELSE (IF Head(s) = old THEN new ELSE <<Head(s)>>) \o Replace(Tail(s), old, new)

\* document = template.replace(preamble).replace(fontsize).replace(code)
Assemble(tmpl, pre, fs, frag) ==
  Replace(Replace(Replace(tmpl, PreambleMark, pre),
                  FontsizeMark, <<ToString(fs)>>),
          CodeMark, frag)

\* ------------------------------------------------------------------ floats
Float(neg, num, den) == [neg |-> neg, num |-> num, den |-> den]
Zero == Float(FALSE, 0, 1)                       \* 0.0
Negate(x) == [x EXCEPT !.neg = ~x.neg]           \* unary minus: -0.0 has a sign
IsNegative(x) == x.neg /\ x.num > 0
IsPositive(x) == ~x.neg /\ x.num > 0

\* float(group) / fontsize * scaling, for a token of `pt` typesetting points
ToEm(neg, pt, fs) == Float(neg, pt * ScalingMicro, fs)

RoundHalfEven(n, d) ==
  LET q == n \div d
      r == n % d
  IN  IF 2 * r < d THEN q
      ELSE IF 2 * r > d THEN q + 1
      ELSE IF q % 2 = 0 THEN q ELSE q + 1

\* round(x, 6): the value in micro-em, as a number (-0.0 == 0)
Round6(x) ==
  LET m == RoundHalfEven(x.num, x.den) IN IF x.neg THEN 0 - m ELSE m

\* f'{x:.6f}em': sign character and six-decimal magnitude
Format6(x) == [minus |-> x.neg, micro |-> RoundHalfEven(x.num, x.den)]

\* the number a formatted length denotes
ParseFormat6(s) == IF s.minus THEN 0 - s.micro ELSE s.micro

\* ----------------------------------------------------------------- streams
\* bytes captured from a subprocess (stdout=PIPE, stderr=PIPE)
Stream(id, size, depth, utf8) ==
  [id |-> id, size |-> size, depth |-> depth, utf8 |-> utf8]
Quiet == Stream("", <<>>, <<>>, TRUE)

\* what a failing tool may have printed
FailStdout == { Stream("stdout-text", <<>>, <<>>, TRUE),
                Stream("stdout-latin1", <<>>, <<>>, FALSE) }
FailStderr == { Stream("stderr-text", <<>>, <<>>, TRUE),
                Stream("stderr-latin1", <<>>, <<>>, FALSE) }

\* 'WIDTHpt x HEIGHTpt' as matched by  \b([0-9.]+)pt x ([0-9.]+)pt
SizeTokens == { <<>>, <<10, 7>> }
\* the group matched by  \bdepth=([0-9.e-]+)pt : the class admits '-' and 'e',
\* so a leading minus matches, and so does text float() rejects ("3.e-")
DepthToken(minus, pt, wellformed) ==
  [minus |-> minus, pt |-> pt, wellformed |-> wellformed]
DepthTokens == { <<>>, <<DepthToken(FALSE, 0, TRUE)>>, <<DepthToken(FALSE, 3, TRUE)>>,
                 <<DepthToken(TRUE, 3, TRUE)>>, <<DepthToken(FALSE, 3, FALSE)>> }
\* what dvisvgm may have written to stderr when it exits 0
DvisvgmTexts ==
  { Stream("dvisvgm-messages", s, d, TRUE) : s \in SizeTokens, d \in DepthTokens }
  \cup { Stream("dvisvgm-latin1", <<>>, <<>>, FALSE) }

\* ------------------------------------------------------------- subprocesses
\* one subprocess.run: found = FALSE is FileNotFoundError from the launch
Run(tool, found, rc, out, err) ==
  [tool |-> tool, found |-> found, returncode |-> rc, stdout |-> out, stderr |-> err]

Launch(tool) ==
  { Run(tool, FALSE, 0, Quiet, Quiet) }
  \cup { Run(tool, TRUE, rc, o, e) :
           rc \in 1..MaxReturncode, o \in FailStdout, e \in FailStderr }
  \cup { Run(tool, TRUE, 0, Quiet, e) :
           e \in IF tool = "dvisvgm" THEN DvisvgmTexts ELSE {Quiet} }

\* check_returncode() never raising (a mutant of CheckReturncode)
CheckReturncodeNever(ret) == FALSE

\* CompletedProcess.check_returncode(): raises iff the exit status is non-zero
CheckReturncode(ret) == ret.returncode # 0

Exception(type, tool, rc, out, err) ==
  [type |-> type, tool |-> tool, returncode |-> rc, output |-> out, stderr |-> err]

\* the two streams exchanged (a mutant of CalledProcessError)
CalledProcessErrorSwapped(ret) ==
  Exception("CalledProcessError", ret.tool, ret.returncode, ret.stderr, ret.stdout)

\* raised by check_returncode: CalledProcessError(returncode, args, stdout, stderr)
CalledProcessError(ret) ==
  Exception("CalledProcessError", ret.tool, ret.returncode, ret.stdout, ret.stderr)

\* raise RuntimeError('<tool> not found')
NotFoundError(tool) == Exception("RuntimeError", tool, 0, Quiet, Quiet)

\* TypeError, ValueError, UnicodeDecodeError raised by the interpreter
BuiltinError(type) == Exception(type, "", 0, Quiet, Quiet)

\* ------------------------------------------------------------ measurements
\* get_size: (None, None) is <<>>, else <<width, height>> in em
GetSize(text, fs) ==
  IF text.size = <<>> THEN <<>>
  ELSE << ToEm(FALSE, text.size[1], fs), ToEm(FALSE, text.size[2], fs) >>

\* get_measure(output, 'depth'): None is <<>>
GetMeasure(text, fs) ==
  IF text.depth = <<>> THEN <<>>
  ELSE << ToEm(text.depth[1].minus, text.depth[1].pt, fs) >>

\* width, height = get_size(output): each None (<<>>) or a float
SizeWidth(size) == IF size = <<>> THEN <<>> ELSE <<size[1]>>
SizeHeight(size) == IF size = <<>> THEN <<>> ELSE <<size[2]>>

\* float(match.group(1)) raises ValueError
FloatRaises(text) == text.depth # <<>> /\ ~text.depth[1].wellformed

\* the default left out (a mutant of DepthOrDefault)
DepthKeepNone(d) == d

\* if depth is None: depth = 0.0
DepthOrDefault(d) == IF d = <<>> THEN <<Zero>> ELSE d

\* round(depth, 6), the minus sign forgotten (a mutant of Valign)
ValignNoNegate(d) == Round6(d)

\* 'valign': round(-depth, 6)
Valign(d) == Round6(Negate(d))

\* f'vertical-align:{-depth:.6f}em'
StyleValue(d) == Format6(Negate(d))

\* ---------------------------------------------------------------- graphics
Svg(comments, w, h, style, by, idPrefix) ==
  [comments |-> comments, width |-> w, height |-> h, style |-> style,
   optimizedBy |-> by, idPrefix |-> idPrefix]

\* code.svg as dvisvgm writes it: generator comment, no em attributes
RawSvg == Svg(TRUE, <<>>, <<>>, <<>>, "", <<>>)

\* parse with remove_comments, set width / height / style on the root
Injected(svg, w, h, d) ==
  [svg EXCEPT !.comments = FALSE, !.width = <<Format6(w)>>,
              !.height = <<Format6(h)>>, !.style = <<StyleValue(d)>>]

\* optimized.svg as the optimizer writes it from code.svg
Optimized(svg, tool, idPrefix) ==
  [svg EXCEPT !.optimizedBy = tool, !.idPrefix = idPrefix]

\* -------------------------------------------------------- identifier prefix
Underscore == 95
AsciiLowercase == [i \in 1..26 |-> 96 + i]
AsciiUppercase == [i \in 1..26 |-> 64 + i]
AsciiLetters == AsciiLowercase \o AsciiUppercase      \* string.ascii_letters
Digits == [i \in 1..10 |-> 47 + i]                     \* string.digits
IsDigit(c) == c \in 48..57
IsAsciiLetter(c) == c \in (65..90) \cup (97..122)

\* drawing from digits and letters (a mutant of PrefixAlphabet)
PrefixAlphabetWithDigits ==
  { (Digits \o AsciiLetters)[i] : i \in 1..NumLetters }

\* the characters random.choice(string.ascii_letters) draws from
PrefixAlphabet == { AsciiLetters[i] : i \in 1..NumLetters }

\* the else branch taken for scour's default (a mutant of OptimizerBranch)
OptimizerBranchDefaultScour(opt) == IF opt = "svgo" THEN "svgo" ELSE "scour"

\* if optimizer == 'scour' ... elif 'svgo' ... else
OptimizerBranch(opt) ==
  IF opt = "scour" THEN "scour" ELSE IF opt = "svgo" THEN "svgo" ELSE "none"

\* ------------------------------------------------------------ working area
NoFiles == [n \in {} |-> RawSvg]
WriteFile(fs, name, content) ==
  [n \in DOMAIN fs \cup {name} |-> IF n = name THEN content ELSE fs[n]]

\* cleanup on normal return only (a mutant of DirExistsAfterCall)
DirExistsAfterReturnOnly(owned, raised) == ~owned \/ raised

\* TemporaryDirectory's __exit__ runs on return and on exception alike; a
\* directory the caller passed in is left alone
DirExistsAfterCall(owned, raised) == ~owned

\* working_directory is None: main() and callers that pass no directory
OwnsDirectory(m) == m # "api_wd"

\* ---------------------------------------------------------------- main()
Written(kind, stream, etype) == [kind |-> kind, stream |-> stream, etype |-> etype]
Traceback(etype) == Written("traceback", Quiet, etype)
Printed(stream) == Written("text", stream, "")

\* sys.stdout.write(out['svg'])
MainStdout(r, e) == IF r # <<>> THEN <<r[1].svg>> ELSE <<>>

\* except CalledProcessError: print both streams decoded; anything else is
\* uncaught and the interpreter prints a traceback
MainStderr(r, e) ==
  IF e = <<>> THEN <<>>
  ELSE IF e[1].type = "CalledProcessError"
       THEN IF ~e[1].output.utf8 THEN <<Traceback("UnicodeDecodeError")>>
            ELSE IF ~e[1].stderr.utf8
                 THEN <<Printed(e[1].output), Traceback("UnicodeDecodeError")>>
                 ELSE <<Printed(e[1].output), Printed(e[1].stderr)>>
       ELSE <<Traceback(e[1].type)>>

\* sys.exit(exc.returncode), or the interpreter's status
MainExit(r, e) ==
  IF e = <<>> THEN 0
  ELSE IF e[1].type = "CalledProcessError" /\ e[1].output.utf8 /\ e[1].stderr.utf8
       THEN e[1].returncode
       ELSE UncaughtExitStatus

\* ------------------------------------------------------------------- state
VARIABLES
  mode,        \* who calls: "main", "api_tmp" (no directory given), "api_wd"
  optimizer,   \* params['optimizer']
  fontsize,    \* params['fontsize']
  template,    \* params['template']
  preamble,    \* params['preamble']
  code,        \* the fragment
  pc,          \* position in latex2svg
  callNo,      \* conversions begun in this process
  dirExists,   \* the working directory exists
  files,       \* its content: file name -> content
  written,     \* names of the files written during this call
  document,    \* the assembled document
  runs,        \* the subprocess.run calls of this call, in order
  width,       \* <<>> is None
  height,
  depth,
  svgParsed,   \* etree.parse(code.svg) has been called
  svgWritten,  \* what xml.write put into code.svg, <<>> before
  prefix,      \* the random prefix of this call, <<>> before it is drawn
  handed,      \* the identifier prefix given to the optimizer started in this call
  prevHanded,  \* the same, of the latest earlier call that started an optimizer
  result,      \* <<>> or <<the returned dict>>
  exc,         \* <<>> or <<the exception that left latex2svg>>
  stdoutBuf,   \* what main wrote to sys.stdout
  stderrBuf,   \* what main (or the interpreter) wrote to sys.stderr
  exitStatus   \* <<>> or <<the exit status of main's process>>

params == <<mode, optimizer, fontsize, template, preamble, code>>
area == <<dirExists, files, written>>
measures == <<width, height, depth>>
locals == <<document, runs, width, height, depth, svgParsed, svgWritten, prefix, handed>>
outcome == <<result, exc, stdoutBuf, stderrBuf, exitStatus>>
vars == <<mode, optimizer, fontsize, template, preamble, code, pc, callNo,
          dirExists, files, written, document, runs, width, height, depth,
          svgParsed, svgWritten, prefix, handed, prevHanded, result, exc,
          stdoutBuf, stderrBuf, exitStatus>>

Modes == {"main", "api_tmp", "api_wd"}
Optimizers == {"scour", "svgo", "none"}      \* argparse choices
FontSizes == {10, DefaultFontsize}

Fresh ==
  /\ document = <<>> /\ runs = <<>>
  /\ width = <<>> /\ height = <<>> /\ depth = <<>>
  /\ svgParsed = FALSE /\ svgWritten = <<>>
  /\ prefix = <<>> /\ handed = <<>>
  /\ result = <<>> /\ exc = <<>>
  /\ stdoutBuf = <<>> /\ stderrBuf = <<>> /\ exitStatus = <<>>
  /\ files = NoFiles /\ written = {}

Init ==
  /\ mode = "api_tmp" /\ optimizer = "scour" /\ fontsize = DefaultFontsize
  /\ template = default_template /\ preamble = default_preamble /\ code = <<"text">>
  /\ pc = "idle" /\ callNo = 0 /\ dirExists = FALSE /\ prevHanded = <<>>
  /\ Fresh

\* latex2svg is left, by return (r) or by exception (e), with the working
\* directory holding f: the directory is released, and main acts on the outcome
EndCall(r, e, f, w) ==
  /\ pc' = "ended"
  /\ result' = r
  /\ exc' = e
  /\ dirExists' = DirExistsAfterCall(OwnsDirectory(mode), e # <<>>)
  /\ files' = IF dirExists' THEN f ELSE NoFiles
  /\ written' = w
  /\ stdoutBuf' = IF mode = "main" THEN MainStdout(r, e) ELSE <<>>
  /\ stderrBuf' = IF mode = "main" THEN MainStderr(r, e) ELSE <<>>
  /\ exitStatus' = IF mode = "main" THEN <<MainExit(r, e)>> ELSE <<>>

\* a caller enters latex2svg; main() passes default_params and no directory
Call(m, opt, fs) ==
  /\ pc \in {"idle", "ended"}
  /\ callNo < MaxCalls
  /\ m = "main" => fs = DefaultFontsize
  /\ mode' = m /\ optimizer' = opt /\ fontsize' = fs
  /\ UNCHANGED <<template, preamble, code>>
  /\ callNo' = callNo + 1
  /\ pc' = "assemble"
  /\ dirExists' = TRUE
  /\ files' = NoFiles /\ written' = {}
  /\ document' = <<>> /\ runs' = <<>>
  /\ width' = <<>> /\ height' = <<>> /\ depth' = <<>>
  /\ svgParsed' = FALSE /\ svgWritten' = <<>>
  /\ prefix' = <<>> /\ handed' = <<>>
  /\ prevHanded' = IF mode = "main" THEN <<>>
                   ELSE IF handed # <<>> THEN handed ELSE prevHanded
  /\ result' = <<>> /\ exc' = <<>>
  /\ stdoutBuf' = <<>> /\ stderrBuf' = <<>> /\ exitStatus' = <<>>

\* the document is assembled and written to code.tex
AssembleDocument ==
  /\ pc = "assemble"
  /\ document' = Assemble(template, preamble, fontsize, code)
  /\ files' = WriteFile(files, "code.tex", document')
  /\ written' = written \cup {"code.tex"}
  /\ pc' = "latex"
  /\ UNCHANGED <<params, callNo, dirExists, runs, measures, svgParsed, svgWritten,
                 prefix, handed, prevHanded, outcome>>

\* subprocess.run(latex ... code.tex); check_returncode.  Of what latex
\* writes only code.dvi is tracked (its log and aux files are read by nothing)
RunLatex ==
  /\ pc = "latex"
  /\ \E ret \in Launch("latex") :
       /\ runs' = Append(runs, ret)
       /\ IF ~ret.found
            THEN EndCall(<<>>, <<NotFoundError("latex")>>, files, written)
          ELSE IF CheckReturncode(ret)
            THEN EndCall(<<>>, <<CalledProcessError(ret)>>, files, written)
          ELSE /\ pc' = "dvisvgm"
               /\ files' = WriteFile(files, "code.dvi", "dvi")
               /\ written' = written \cup {"code.dvi"}
               /\ UNCHANGED <<dirExists, outcome>>
  /\ UNCHANGED <<params, callNo, document, measures, svgParsed, svgWritten,
                 prefix, handed, prevHanded>>

\* subprocess.run(dvisvgm ... code.dvi); check_returncode
RunDvisvgm ==
  /\ pc = "dvisvgm"
  /\ \E ret \in Launch("dvisvgm") :
       /\ runs' = Append(runs, ret)
       /\ IF ~ret.found
            THEN EndCall(<<>>, <<NotFoundError("dvisvgm")>>, files, written)
          ELSE IF CheckReturncode(ret)
            THEN EndCall(<<>>, <<CalledProcessError(ret)>>, files, written)
          ELSE /\ pc' = "measure"
               /\ files' = WriteFile(files, "code.svg", RawSvg)
               /\ written' = written \cup {"code.svg"}
               /\ UNCHANGED <<dirExists, outcome>>
  /\ UNCHANGED <<params, callNo, document, measures, svgParsed, svgWritten,
                 prefix, handed, prevHanded>>

\* output = ret.stderr.decode('utf-8'); get_size; get_measure; depth default
ParseMeasurements ==
  /\ pc = "measure"
  /\ LET bytes == runs[Len(runs)].stderr
         size == GetSize(bytes, fontsize)
     IN  IF ~bytes.utf8
           THEN /\ EndCall(<<>>, <<BuiltinError("UnicodeDecodeError")>>, files, written)
                /\ UNCHANGED measures
         ELSE IF FloatRaises(bytes)
           THEN /\ EndCall(<<>>, <<BuiltinError("ValueError")>>, files, written)
                /\ width' = SizeWidth(size)
                /\ height' = SizeHeight(size)
                /\ UNCHANGED depth
         ELSE /\ pc' = "inject"
              /\ width' = SizeWidth(size)
              /\ height' = SizeHeight(size)
              /\ depth' = DepthOrDefault(GetMeasure(bytes, fontsize))
              /\ UNCHANGED <<area, outcome>>
  /\ UNCHANGED <<params, callNo, document, runs, svgParsed, svgWritten, prefix,
                 handed, prevHanded>>

\* etree.parse(code.svg); svg.set width, height, style; xml.write(code.svg)
InjectMetadata ==
  /\ pc = "inject"
  /\ svgParsed' = TRUE
  /\ IF width = <<>> \/ height = <<>> \/ depth = <<>>
       THEN /\ EndCall(<<>>, <<BuiltinError("TypeError")>>, files, written)
            /\ UNCHANGED svgWritten
     ELSE LET new == Injected(files["code.svg"], width[1], height[1], depth[1])
          IN  /\ files' = WriteFile(files, "code.svg", new)
              /\ svgWritten' = <<new>>
              /\ pc' = "prefix"
              /\ UNCHANGED <<dirExists, written, outcome>>
  /\ UNCHANGED <<params, callNo, document, runs, measures, prefix, handed, prevHanded>>

\* prefix = ''.join(random.choice(string.ascii_letters) for n in range(3))
GeneratePrefix ==
  /\ pc = "prefix"
  /\ \E p \in [1..PrefixLen -> PrefixAlphabet] : prefix' = p
  /\ pc' = "optimize"
  /\ UNCHANGED <<params, callNo, area, document, runs, measures, svgParsed,
                 svgWritten, handed, prevHanded, outcome>>

\* return {'svg': svg, 'valign': round(-depth,6), 'width': ..., 'height': ...}
Result(svg) ==
  [svg |-> svg, valign |-> Valign(depth[1]),
   width |-> Round6(width[1]), height |-> Round6(height[1])]

\* scour --shorten-ids-prefix=<prefix>_ -i code.svg -o optimized.svg; read; return
OptimizeScour ==
  /\ pc = "optimize"
  /\ OptimizerBranch(optimizer) = "scour"
  /\ \E ret \in Launch("scour") :
       /\ runs' = Append(runs, ret)
       /\ handed' = IF ret.found THEN <<Append(prefix, Underscore)>> ELSE <<>>
       /\ IF ~ret.found
            THEN EndCall(<<>>, <<NotFoundError("scour")>>, files, written)
          ELSE IF CheckReturncode(ret)
            THEN EndCall(<<>>, <<CalledProcessError(ret)>>, files, written)
          ELSE LET out == Optimized(files["code.svg"], "scour", handed'[1])
               IN  EndCall(<<Result(out)>>, <<>>,
                           WriteFile(files, "optimized.svg", out),
                           written \cup {"optimized.svg"})
  /\ UNCHANGED <<params, callNo, document, measures, svgParsed, svgWritten,
                 prefix, prevHanded>>

\* write svgo.config.js (prefix, delim '_'); svgo -i code.svg -o optimized.svg
OptimizeSvgo ==
  /\ pc = "optimize"
  /\ OptimizerBranch(optimizer) = "svgo"
  /\ \E ret \in Launch("svgo") :
       LET withConfig == WriteFile(files, "svgo.config.js", prefix)
           w == written \cup {"svgo.config.js"}
       IN  /\ runs' = Append(runs, ret)
           /\ handed' = IF ret.found THEN <<Append(withConfig["svgo.config.js"], Underscore)>>
                        ELSE <<>>
           /\ IF ~ret.found
                THEN EndCall(<<>>, <<NotFoundError("svgo")>>, withConfig, w)
              ELSE IF CheckReturncode(ret)
                THEN EndCall(<<>>, <<CalledProcessError(ret)>>, withConfig, w)
              ELSE LET out == Optimized(files["code.svg"], "svgo", handed'[1])
                   IN  EndCall(<<Result(out)>>, <<>>,
                               WriteFile(withConfig, "optimized.svg", out),
                               w \cup {"optimized.svg"})
  /\ UNCHANGED <<params, callNo, document, measures, svgParsed, svgWritten,
                 prefix, prevHanded>>

\* no optimization: read code.svg and return
OptimizeNone ==
  /\ pc = "optimize"
  /\ OptimizerBranch(optimizer) = "none"
  /\ EndCall(<<Result(files["code.svg"])>>, <<>>, files, written)
  /\ UNCHANGED <<params, callNo, document, runs, measures, svgParsed, svgWritten,
                 prefix, handed, prevHanded>>

Next ==
  \/ \E m \in Modes, opt \in Optimizers, fs \in FontSizes : Call(m, opt, fs)
  \/ AssembleDocument
  \/ RunLatex
  \/ RunDvisvgm
  \/ ParseMeasurements
  \/ InjectMetadata
  \/ GeneratePrefix
  \/ OptimizeScour
  \/ OptimizeSvgo
  \/ OptimizeNone

Spec == Init /\ [][Next]_vars

\* ------------------------------------------------- the assembly on its own
\* latex2svg entered with a template, a preamble, a font size and a fragment
InitAssemble ==
  /\ mode = "api_wd" /\ optimizer = "none"
  /\ fontsize \in FontSizes
  /\ template \in SeqsUpTo(Tokens, MaxTemplateLen)
  /\ preamble \in SeqsUpTo(Tokens, MaxValueLen)
  /\ code \in SeqsUpTo(Tokens, MaxValueLen)
  /\ pc = "assemble" /\ callNo = 1 /\ dirExists = TRUE /\ prevHanded = <<>>
  /\ Fresh

NextAssemble == AssembleDocument

SpecAssemble == InitAssemble /\ [][NextAssemble]_vars

\* ------------------------------------------------------------ properties
Ended == pc = "ended"
Failed == Ended /\ exc # <<>>
Succeeded == Ended /\ result # <<>>
LastRun == runs[Len(runs)]
ToolFailures == {"RuntimeError", "CalledProcessError"}
LastRunFailed == Len(runs) > 0 /\ (~LastRun.found \/ LastRun.returncode # 0)
\* dvisvgm exited 0 and its diagnostic text could be decoded and parsed
DvisvgmOk ==
  /\ Len(runs) >= 2 /\ runs[2].found /\ runs[2].returncode = 0
  /\ runs[2].stderr.utf8 /\ ~FloatRaises(runs[2].stderr)
SizeMissing == DvisvgmOk /\ runs[2].stderr.size = <<>>
DepthMissing == DvisvgmOk /\ runs[2].stderr.size # <<>> /\ runs[2].stderr.depth = <<>>
\* the tools of one call, in pipeline order
ExpectedTools ==
  <<"latex", "dvisvgm">> \o (IF optimizer \in {"scour", "svgo"} THEN <<optimizer>> ELSE <<>>)
\* the artifacts that exist before a tool is started
ArtifactsBefore(tool) ==
  CASE tool = "latex" -> {"code.tex"}
    [] tool = "dvisvgm" -> {"code.tex", "code.dvi"}
    [] tool = "scour" -> {"code.tex", "code.dvi", "code.svg"}
    [] OTHER -> {"code.tex", "code.dvi", "code.svg", "svgo.config.js"}

\* C1: the tools are started in the order latex, dvisvgm, selected optimizer,
\* each at most once; a tool is started only after every earlier one exited
\* with status zero; after the first failure (executable missing, non-zero
\* exit, size token missing) no tool is started, no later artifact is written
\* and the call ends with an error instead of a result.
C1_PipelineOrderAndAbort ==
  /\ Len(runs) <= Len(ExpectedTools)
  /\ \A i \in 1..Len(runs) : runs[i].tool = ExpectedTools[i]
  /\ \A i \in 1..(Len(runs) - 1) : runs[i].found /\ runs[i].returncode = 0
  /\ LastRunFailed =>
       /\ Failed /\ result = <<>>
       /\ written \subseteq ArtifactsBefore(LastRun.tool)
       /\ (LastRun.tool \in {"latex", "dvisvgm"} => svgWritten = <<>>)
  /\ SizeMissing =>
       /\ Len(runs) = 2 /\ svgWritten = <<>> /\ result = <<>>
       /\ written \subseteq ArtifactsBefore("scour")
       /\ pc \in {"measure", "inject", "ended"}
       /\ (Ended => exc # <<>>)

\* C1 witness: dvisvgm was started after latex exited 0, exited non-zero
\* itself, and the call has ended with the error
C1_Witness ==
  /\ Failed /\ Len(runs) = 2
  /\ runs[2].found /\ runs[2].returncode # 0

\* C2: for latex, dvisvgm, scour and svgo alike, an executable that cannot be
\* found gives a tool-not-found error naming that tool, and a run that exits
\* non-zero gives a tool-failed error with that exit status and the captured
\* stdout and stderr bytes of that run; the two kinds are never confused.
C2_FailureKinds ==
  /\ (Len(runs) > 0 /\ ~LastRun.found) =>
       /\ Failed
       /\ exc[1].type = "RuntimeError" /\ exc[1].tool = LastRun.tool
  /\ (Len(runs) > 0 /\ LastRun.found /\ LastRun.returncode # 0) =>
       /\ Failed
       /\ exc[1].type = "CalledProcessError"
       /\ exc[1].returncode = LastRun.returncode
       /\ exc[1].output = LastRun.stdout
       /\ exc[1].stderr = LastRun.stderr
  /\ (Failed /\ exc[1].type = "RuntimeError") => ~LastRun.found
  /\ (Failed /\ exc[1].type = "CalledProcessError") =>
       LastRun.found /\ LastRun.returncode # 0

\* C2 witness: svgo ran and exited non-zero, with bytes on both streams
C2_Witness ==
  /\ Failed /\ exc[1].type = "CalledProcessError" /\ exc[1].tool = "svgo"
  /\ exc[1].output.id = "stdout-latin1" /\ exc[1].stderr.id = "stderr-text"

\* C3: when dvisvgm exits 0 and its text has no size token, latex2svg fails
\* with a failure distinct from tool-not-found and tool-failed, before the
\* injection stage begins: code.svg is neither parsed nor rewritten and no
\* optimizer is started.
C3_SizeMissingFailsBeforeInjection ==
  (Ended /\ SizeMissing) =>
    /\ exc # <<>> /\ exc[1].type \notin ToolFailures
    /\ ~svgParsed /\ svgWritten = <<>>
    /\ Len(runs) = 2

\* C4 as claimed: the working area is created at the start of every call and
\* no longer exists, with all its contents, once the call has ended.
C4_AreaGoneAfterEveryCall ==
  /\ pc \notin {"idle", "ended"} => dirExists
  /\ Ended => ~dirExists /\ files = NoFiles

\* C4 amended: a call that is given no working directory creates one at its
\* start and has removed it, with all its contents, when it ends, on every
\* exit path; a directory the caller passed in is left in place.
C4_OwnedAreaGoneAfterCall ==
  /\ pc \notin {"idle", "ended"} => dirExists
  /\ (Ended /\ OwnsDirectory(mode)) => ~dirExists /\ files = NoFiles
  /\ (Ended /\ ~OwnsDirectory(mode)) => dirExists /\ "code.tex" \in DOMAIN files

\* C4 witness: a call without a directory has ended on the size-token path
C4_Witness ==
  /\ Ended /\ mode = "api_tmp" /\ SizeMissing
  /\ exc # <<>> /\ ~dirExists

\* C5 as claimed: on success valign and the style's vertical-align are both
\* the negation of the measured depth, the depth is non-negative, and valign
\* is never positive.
C5_ValignNeverPositive ==
  Succeeded =>
    /\ result[1].valign + Round6(depth[1]) = 0
    /\ ParseFormat6(svgWritten[1].style[1]) = result[1].valign
    /\ ~IsNegative(depth[1])
    /\ result[1].valign <= 0

\* C5 amended: on success valign and the style's vertical-align are both the
\* negation of the measured depth and agree; valign is not positive whenever
\* the measured depth is not negative (a depth token with a leading minus is
\* accepted, and then valign is positive).
C5_ValignIsNegatedDepth ==
  Succeeded =>
    /\ result[1].valign + Round6(depth[1]) = 0
    /\ ParseFormat6(svgWritten[1].style[1]) = result[1].valign
    /\ result[1].svg.style = svgWritten[1].style
    /\ (~IsNegative(depth[1]) => result[1].valign <= 0)
    /\ (IsNegative(depth[1]) => result[1].valign > 0)

\* C5 witness: a conversion with a positive depth has returned
C5_Witness == Succeeded /\ IsPositive(depth[1]) /\ result[1].valign < 0

\* C6: a size token without a depth token is not an error: the depth is
\* exactly 0, the conversion goes on through injection and optimization (only
\* the optimizer can still fail it), and the result has a valign of zero.
C6_DepthDefaultsToZero ==
  (DepthMissing /\ pc # "measure") =>
    /\ depth = <<Zero>>
    /\ pc \in {"inject", "prefix", "optimize", "ended"}
    /\ (Failed => exc[1].type \in ToolFailures /\ exc[1].tool \in {"scour", "svgo"})
    /\ (Ended /\ optimizer = "none" => result # <<>>)
    /\ (result # <<>> =>
          "valign" \in DOMAIN result[1] /\ result[1].valign = 0)

\* C6 witness: a conversion without a depth token has returned a result
C6_Witness == DepthMissing /\ Succeeded /\ optimizer = "scour"

\* C7: with optimizer 'none', a conversion whose latex and dvisvgm stages
\* succeed starts no optimizer, writes neither svgo.config.js nor
\* optimized.svg, and returns the content of code.svg as injection left it.
C7_NoneReturnsInjectedSvg ==
  optimizer = "none" =>
    /\ \A i \in 1..Len(runs) : runs[i].tool \notin {"scour", "svgo"}
    /\ written \cap {"svgo.config.js", "optimized.svg"} = {}
    /\ handed = <<>>
    /\ (Ended /\ svgWritten # <<>>) =>
         /\ result # <<>>
         /\ result[1].svg = svgWritten[1]
         /\ (mode = "api_wd" => result[1].svg = files["code.svg"])

\* C7 witness: a conversion with optimizer 'none' has returned into a
\* directory of the caller's
C7_Witness == Succeeded /\ optimizer = "none" /\ mode = "api_wd"

\* C8 as claimed: no two conversions of one process hand the same prefix to
\* the optimizer.
C8_PrefixesNeverRepeat ==
  (handed # <<>> /\ prevHanded # <<>>) => handed # prevHanded

\* C8 amended: each call draws its own prefix, after injection and not
\* before: three ASCII letters, so never a leading digit; the optimizer gets
\* that prefix followed by '_'.  Two calls may draw the same prefix.
C8_PrefixFreshLetters ==
  /\ pc \in {"assemble", "latex", "dvisvgm", "measure", "inject", "prefix"} =>
       prefix = <<>> /\ handed = <<>>
  /\ prefix # <<>> =>
       /\ Len(prefix) = PrefixLen
       /\ \A i \in 1..Len(prefix) : IsAsciiLetter(prefix[i])
       /\ ~IsDigit(prefix[1])
  /\ handed # <<>> => handed[1] = prefix \o <<Underscore>>

\* C8 witness: a second conversion has handed a prefix to its optimizer
C8_Witness == callNo = 2 /\ handed # <<>> /\ prevHanded # <<>>

\* every placeholder of the template replaced by its value, the values copied
RECURSIVE SubstituteOnce(_, _, _, _)
SubstituteOnce(tmpl, pre, fs, frag) ==
  IF tmpl = <<>> THEN <<>>
  ELSE (CASE Head(tmpl) = PreambleMark -> pre
          [] Head(tmpl) = FontsizeMark -> <<ToString(fs)>>
          [] Head(tmpl) = CodeMark -> frag
          [] OTHER -> <<Head(tmpl)>>)
       \o SubstituteOnce(Tail(tmpl), pre, fs, frag)

\* C9: the assembled document is the template with each placeholder replaced
\* once by its value; a marker that arrives inside a value is copied as is.
C9_SubstitutedExactlyOnce ==
  pc = "latex" => document = SubstituteOnce(template, preamble, fontsize, code)

\* the captured diagnostics of the failure, as main should print them
DiagnosticsPrinted(s) == \E i \in 1..Len(stderrBuf) : stderrBuf[i] = Printed(s)

\* C10: main writes the graphic to stdout only on success; on every failure
\* it writes nothing to stdout, writes the captured diagnostics to stderr, and
\* exits with the failing tool's status when the tool ran, else with a fixed
\* non-zero status.
C10_MainReportsFailure ==
  (mode = "main" /\ Ended) =>
    /\ result # <<>> => stdoutBuf = <<result[1].svg>> /\ exitStatus = <<0>>
    /\ exc # <<>> =>
         /\ stdoutBuf = <<>>
         /\ exc[1].type = "CalledProcessError" =>
              /\ DiagnosticsPrinted(LastRun.stdout)
              /\ DiagnosticsPrinted(LastRun.stderr)
              /\ exitStatus = <<LastRun.returncode>>
         /\ exc[1].type # "CalledProcessError" => exitStatus = <<UncaughtExitStatus>>
         /\ SizeMissing => DiagnosticsPrinted(runs[2].stderr)

====
